---- MODULE Spec2Model ----
(***************************************************************************)
(* df-map-export: two command line tools that turn Dwarf Fortress map      *)
(* elevations into one workbook with a sheet per elevation.                *)
(*   src/df-screenshot-to-map.py  minimap screenshots -> 0/1 grids         *)
(*   src/df-map-export.py         DFHack text grids   -> character grids   *)
(* The module models both main() functions step by step (one action per    *)
(* loop iteration or straight-line block) and the pure helpers they call.  *)
(* Python indices are kept 0-based in every coordinate; TLA+ sequences are *)
(* 1-based, so image[r][c] of the source is image[r+1][c+1] here.          *)
(***************************************************************************)
EXTENDS Integers, Sequences, FiniteSets, TLC

(* ------------------------------ bounds -------------------------------- *)
\* height and width (pixels) of the minimap part of a modelled screenshot
ImgH == 8
ImgW == 9
\* most screenshots in a world directory
MaxPngs == 3
\* most text grids in a world directory
MaxFiles == 2
\* most lines of the text grids of a world, and most characters of a line
MaxLines == 2
MaxCols == 3
\* the number of screenshots of a world the crop of pass 2 is checked on
CropPngs == 2

(* ----------------------- Python values ------------------------------- *)
\* Python's None for an optional integer; Some(v) is the integer v
None == <<>>
Some(v) == <<v>>
Val(o) == o[1]

Min(S) == CHOOSE x \in S : \A y \in S : x <= y
Max(S) == CHOOSE x \in S : \A y \in S : x >= y

(* ----------------------- colours and screenshots --------------------- *)
\* 8-bit colours <<b, g, r>> as cv2.imread delivers them
Grey    == <<128, 128, 128>>
GreyLo  == <<125, 125, 125>>
GreyHi  == <<130, 130, 130>>
Below   == <<128, 124, 128>>
Above   == <<128, 128, 131>>
Black   == <<0, 0, 0>>
Surface == <<60, 160, 40>>
Border  == <<90, 90, 90>>
Title   == <<210, 210, 210>>

\* A screenshot file is identified by what it shows: `title` rows of title
\* bar, one black row, then an ImgH x ImgW minimap of Surface pixels with
\* an optional rectangular block <<top, left, h, w>> of one colour and an
\* optional single pixel <<row, col>> of another colour painted over it;
\* one column of window border closes every row on the right.
NoBlock == <<>>
NoDot   == <<>>

InBlock(b, r, c) ==
    /\ b # NoBlock
    /\ b[1] <= r /\ r < b[1] + b[3]
    /\ b[2] <= c /\ c < b[2] + b[4]

BodyPixel(p, r, c) ==
    IF p.dot # NoDot /\ p.dot = <<r, c>> THEN p.dotColour
    ELSE IF InBlock(p.block, r, c) THEN p.blockColour
    ELSE Surface

\* cv2.imread(png): the pixel matrix of the file
imread(p) ==
    [r \in 1..(p.title + 1 + ImgH) |->
        [c \in 1..(ImgW + 1) |->
            IF r <= p.title THEN Title
            ELSE IF r = p.title + 1 THEN Black
            ELSE IF c = ImgW + 1 THEN Border
            ELSE BodyPixel(p, r - p.title - 2, c - 1)]]

\* cv2.cvtColor(image, cv2.COLOR_BGR2GRAY) for one pixel (OpenCV's 14-bit
\* fixed point weights)
Gray(px) == (px[1] * 1868 + px[2] * 9617 + px[3] * 4899 + 8192) \div 16384

Height(image) == Len(image)
Width(image) == IF Len(image) = 0 THEN 0 ELSE Len(image[1])

\* image[top:bottom, left:right] with Python's slice rules for None and for
\* bounds past the end (all arguments optional integers, never negative here)
SliceLo(o) == IF o = None THEN 0 ELSE Val(o)
SliceHi(o, n) == IF o = None THEN n ELSE IF Val(o) > n THEN n ELSE Val(o)
Slice(image, top, bottom, left, right) ==
    LET t == SliceLo(top)
        b == SliceHi(bottom, Height(image))
        l == SliceLo(left)
        r == SliceHi(right, Width(image))
    IN  [i \in 1..(IF b > t THEN b - t ELSE 0) |->
            [j \in 1..(IF r > l THEN r - l ELSE 0) |-> image[t + i][l + j]]]

crop_top_titlebar(image) ==
    LET first_black_row ==
            Min({r \in 0..(Height(image) - 1) : Gray(image[r + 1][1]) = 0})
        image2 == Slice(image, Some(first_black_row), None, None, None)
        first_non_black_row ==
            Min({r \in 0..(Height(image2) - 1) : Gray(image2[r + 1][1]) # 0})
    IN  Slice(image2, Some(first_non_black_row), None, None, None)

crop_right_window_border(image) ==
    LET last_black_column ==
            Max({c \in 0..(Width(image) - 1) :
                    Gray(image[Height(image)][c + 1]) # 0})
    IN  Slice(image, None, None, None, Some(last_black_column))

(* ----------------------- Tile Classifier ----------------------------- *)
lower == <<125, 125, 125>>
upper == <<130, 130, 130>>
min_size == 50

\* cv2.inRange for one pixel: every channel within the inclusive bounds
inRange(px, lo, hi) == \A k \in 1..3 : lo[k] <= px[k] /\ px[k] <= hi[k]

\* the non-zero pixels <<row, col>> of cv2.inRange(image, lo, hi)
inRangeMask(image, lo, hi) ==
    {rc \in (0..(Height(image) - 1)) \X (0..(Width(image) - 1)) :
        inRange(image[rc[1] + 1][rc[2] + 1], lo, hi)}

\* cv2.connectedComponentsWithStats uses 8-connectivity by default
Adjacent(p, q) ==
    /\ p # q
    /\ p[1] - q[1] \in {-1, 0, 1}
    /\ p[2] - q[2] \in {-1, 0, 1}

RECURSIVE Flood(_, _, _)
Flood(seen, frontier, pixels) ==
    IF frontier = {} THEN seen
    ELSE LET new == {q \in pixels \ seen : \E p \in frontier : Adjacent(p, q)}
         IN  Flood(seen \cup new, new, pixels)

\* the labelled blobs (label 0, the background, left out), each the set of
\* its pixels; stats[:, -1] is each blob's Cardinality
RECURSIVE connectedComponentsWithStats(_)
connectedComponentsWithStats(mask) ==
    IF mask = {} THEN {}
    ELSE LET p == CHOOSE q \in mask : TRUE
             blob == Flood({p}, {p}, mask)
         IN  {blob} \cup connectedComponentsWithStats(mask \ blob)

\* get_underground_pixels keeping a blob only above min_size
get_underground_pixels_Above(image, extents) ==
    LET region == IF extents = <<>> THEN image
                  ELSE Slice(image, extents[3], extents[4],
                                    extents[1], extents[2])
        mask == inRangeMask(region, lower, upper)
        blobs == connectedComponentsWithStats(mask)
    IN  [h  |-> Height(region),
         w  |-> Width(region),
         on |-> UNION {blob \in blobs : Cardinality(blob) > min_size}]

\* get_underground_pixels(image, extents): extents is None (the default) or
\* <<left, right, top, bottom>>. The result is the 0/1 array im_result,
\* given by its shape and the set of its pixels that are 1.
NoExtents == <<>>
get_underground_pixels(image, extents) ==
    LET region == IF extents = NoExtents THEN image
                  ELSE Slice(image, extents[3], extents[4],
                                    extents[1], extents[2])
        mask == inRangeMask(region, lower, upper)
        blobs == connectedComponentsWithStats(mask)
    IN  [h  |-> Height(region),
         w  |-> Width(region),
         on |-> UNION {blob \in blobs : Cardinality(blob) >= min_size}]

(* ----------------------- Extent Finder ------------------------------- *)
\* boundingRect with the width and height of the inclusive corners
boundingRect_Inner(cnt) ==
    LET x == Min({p[2] : p \in cnt})
        y == Min({p[1] : p \in cnt})
    IN  <<x, y, Max({p[2] : p \in cnt}) - x,
                Max({p[1] : p \in cnt}) - y>>

\* cv2.boundingRect of the outer contour of one 8-connected region:
\* <<x, y, w, h>>. (RETR_LIST also lists hole contours; each lies inside
\* the bounding rectangle of the region it is a hole of.)
boundingRect(cnt) ==
    LET x == Min({p[2] : p \in cnt})
        y == Min({p[1] : p \in cnt})
    IN  <<x, y, Max({p[2] : p \in cnt}) - x + 1,
                Max({p[1] : p \in cnt}) - y + 1>>

\* the loop over the contours: <<most_left, most_up, most_right, most_down>>
RECURSIVE ContourFold(_, _)
ContourFold(contours, acc) ==
    IF contours = {} THEN acc
    ELSE LET cnt == CHOOSE k \in contours : TRUE
             b == boundingRect(cnt)
             x == b[1]
             y == b[2]
             w == b[3]
             h == b[4]
             most_left  == IF acc[1] = None \/ x < Val(acc[1])
                           THEN Some(x) ELSE acc[1]
             most_right == IF acc[3] = None \/ x + w > Val(acc[3])
                           THEN Some(x + w) ELSE acc[3]
             most_up    == IF acc[2] = None \/ y < Val(acc[2])
                           THEN Some(y) ELSE acc[2]
             most_down  == IF acc[4] = None \/ y + h > Val(acc[4])
                           THEN Some(y + h) ELSE acc[4]
         IN  ContourFold(contours \ {cnt},
                         <<most_left, most_up, most_right, most_down>>)

\* get_elevation_underground_extents(image): <<left, top, right, bottom>>
get_elevation_underground_extents(image) ==
    LET im_result == get_underground_pixels(image, NoExtents)
        contours == connectedComponentsWithStats(im_result.on)
    IN  ContourFold(contours, <<None, None, None, None>>)

\* `a < b` of Python 3 on optional integers raises TypeError when either
\* side is None
LtRaises(a, b) == a = None \/ b = None

\* update_overall_underground_extents(elevation_extents, current_extents):
\* [raised |-> whether a comparison raised TypeError, value |-> the tuple]
update_overall_underground_extents(elevation_extents, current_extents) ==
    LET left   == elevation_extents[1]
        top    == elevation_extents[2]
        right  == elevation_extents[3]
        bottom == elevation_extents[4]
        leftmost   == current_extents[1]
        topmost    == current_extents[2]
        rightmost  == current_extents[3]
        bottommost == current_extents[4]
        raises ==
            \/ leftmost # None /\ LtRaises(left, leftmost)
            \/ rightmost # None /\ LtRaises(right, rightmost)
            \/ topmost # None /\ LtRaises(top, topmost)
            \/ bottommost # None /\ LtRaises(bottom, bottommost)
    IN  IF raises THEN [raised |-> TRUE, value |-> current_extents]
        ELSE [raised |-> FALSE,
              value |->
                <<IF leftmost = None \/ Val(left) < Val(leftmost)
                    THEN left ELSE leftmost,
                  IF topmost = None \/ Val(top) < Val(topmost)
                    THEN top ELSE topmost,
                  IF rightmost = None \/ Val(right) > Val(rightmost)
                    THEN right ELSE rightmost,
                  IF bottommost = None \/ Val(bottom) > Val(bottommost)
                    THEN bottom ELSE bottommost>>]

(* ----------------------- Python dict and list ------------------------ *)
\* A dict is the sequence of its <<key, value>> items in insertion order;
\* assigning to a key it holds replaces the value where the key stands.
DictKeys(d) == [k \in 1..Len(d) |-> d[k][1]]
DictHas(d, key) == \E k \in 1..Len(d) : d[k][1] = key
DictGet(d, key) == d[CHOOSE k \in 1..Len(d) : d[k][1] = key][2]
DictSet(d, key, value) ==
    IF DictHas(d, key)
    THEN [k \in 1..Len(d) |-> IF d[k][1] = key THEN <<key, value>> ELSE d[k]]
    ELSE Append(d, <<key, value>>)

\* sorted(keys, key=int, reverse=True): insertion sort into descending order
RECURSIVE InsertDesc(_, _)
InsertDesc(sorted, x) ==
    IF sorted = <<>> THEN <<x>>
    ELSE IF x > Head(sorted) THEN <<x>> \o sorted
    ELSE <<Head(sorted)>> \o InsertDesc(Tail(sorted), x)
\* sorted(keys, key=int) without reverse=True
RECURSIVE SortedForward(_)
SortedForward(keys) ==
    IF keys = <<>> THEN <<>>
    ELSE LET rest == SortedForward(Tail(keys))
             smaller == SelectSeq(rest, LAMBDA k : k < Head(keys))
             larger == SelectSeq(rest, LAMBDA k : k >= Head(keys))
         IN  smaller \o <<Head(keys)>> \o larger
RECURSIVE SortedReverse(_)
SortedReverse(keys) ==
    IF keys = <<>> THEN <<>>
    ELSE InsertDesc(SortedReverse(Tail(keys)), Head(keys))

(* ----------------------- workbook (openpyxl) ------------------------- *)
\* A workbook is the sequence of its sheets. A sheet has a title, the cells
\* written to it as <<column, row, value>>, the range given to
\* conditional_formatting.add and the zoom of its view.
SheetTitle == <<"Sheet">>
ElevTitle(elevation) == <<"Elev", elevation>>
NoRange == <<>>
Workbook == <<[title |-> SheetTitle, cells |-> {}, range |-> NoRange,
               zoomScale |-> 100]>>
zoom == 25
NoError == [type |-> "none", message |-> <<>>]
NoFile == [name |-> <<>>, sheets |-> <<>>, active |-> <<>>]

(* ----------------------- Grid Resampler ------------------------------ *)
TilesPerEmbark == 48

Px(pixels, r, c) == IF <<r, c>> \in pixels.on THEN 1 ELSE 0

\* scipy.interpolate.RectBivariateSpline(y_orig, x_orig, pixels) evaluated at
\* (y, x) = (ynum/yden, xnum/xden): an interpolating spline over the nodes
\* np.linspace(0, 1, h) x np.linspace(0, 1, w). It returns the pixel's value
\* at a node; between nodes the model takes the bilinear blend of the four
\* surrounding nodes. The value is the fraction <<numerator, denominator>>.
interpolant(pixels, ynum, yden, xnum, xden) ==
    LET cu == xnum * (pixels.w - 1)
        c0 == cu \div xden
        fu == cu % xden
        c1 == IF c0 + 1 > pixels.w - 1 THEN c0 ELSE c0 + 1
        rv == ynum * (pixels.h - 1)
        r0 == rv \div yden
        fv == rv % yden
        r1 == IF r0 + 1 > pixels.h - 1 THEN r0 ELSE r0 + 1
    IN  << (yden - fv) * ((xden - fu) * Px(pixels, r0, c0)
                          + fu * Px(pixels, r0, c1))
           + fv * ((xden - fu) * Px(pixels, r1, c0)
                   + fu * Px(pixels, r1, c1)),
           xden * yden >>

\* np.round of a non-negative fraction: to the nearest integer, a tie to the
\* even one
npRound(q) ==
    LET n == q[1] \div q[2]
        twice == 2 * (q[1] % q[2])
    IN  IF twice < q[2] THEN n
        ELSE IF twice > q[2] THEN n + 1
        ELSE IF n % 2 = 0 THEN n ELSE n + 1

\* the two counters swapped: ws.cell(column=col, row=row, ...)
ShotCell_Transposed(row, col, value) == <<col, row, value>>

\* the cell ws.cell(column=row, row=col, ...) addresses in the iteration
\* whose counters are row (stepping with x) and col (stepping with y)
ShotCell(row, col, value) == <<row, col, value>>

\* lines 326-346: the cells written for one elevation
Resample(pixels, embark_size) ==
    LET nx == TilesPerEmbark * embark_size[1]
        ny == TilesPerEmbark * embark_size[2]
    IN  {ShotCell(row, col, <<"float", 1>>) :
            <<row, col>> \in
                {rc \in (1..nx) \X (1..ny) :
                    npRound(interpolant(pixels, rc[2] - 1, ny - 1,
                                                rc[1] - 1, nx - 1)) = 1}}

(* ----------------------- text grids (df-map-export.py) --------------- *)
\* A string is the sequence of its characters.
Digits == <<"0", "1", "2", "3", "4", "5", "6", "7", "8", "9">>
IsDigit(ch) == \E k \in 1..10 : Digits[k] = ch
DigitValue(ch) == (CHOOSE k \in 1..10 : Digits[k] = ch) - 1
Whitespace == {" ", "\n", "\t", "\r"}

\* str.strip(): leading and trailing whitespace removed
RECURSIVE lstrip(_)
lstrip(s) ==
    IF s # <<>> /\ Head(s) \in Whitespace THEN lstrip(Tail(s)) ELSE s
RECURSIVE rstrip(_)
rstrip(s) ==
    IF s # <<>> /\ s[Len(s)] \in Whitespace
    THEN rstrip(SubSeq(s, 1, Len(s) - 1)) ELSE s
strip(s) == rstrip(lstrip(s))

\* re.findall('elevation-([0-9-+]+)\.txt', filename) for the file
\* elevation-<stem>.txt of the world directory: the groups matched
re_findall(stem) ==
    IF stem # <<>> /\ \A k \in 1..Len(stem) :
                            IsDigit(stem[k]) \/ stem[k] \in {"-", "+"}
    THEN <<stem>> ELSE <<>>

\* int(s): an optional sign and at least one digit, else ValueError
RECURSIVE DecimalValue(_)
DecimalValue(ds) ==
    IF ds = <<>> THEN 0
    ELSE 10 * DecimalValue(SubSeq(ds, 1, Len(ds) - 1)) + DigitValue(ds[Len(ds)])
IntDigits(s) == IF s # <<>> /\ Head(s) \in {"-", "+"} THEN Tail(s) ELSE s
IntRaises(s) ==
    \/ IntDigits(s) = <<>>
    \/ \E k \in 1..Len(IntDigits(s)) : ~IsDigit(IntDigits(s)[k])
int(s) ==
    IF s # <<>> /\ Head(s) = "-"
    THEN 0 - DecimalValue(IntDigits(s)) ELSE DecimalValue(IntDigits(s))

\* the cell ws.cell(column=col, row=row, ...) addresses
TextCell(row, col, value) == <<col, row, value>>

\* lines 103-111: the cells written for one elevation's lines
TextCells(minimap) ==
    UNION {
        LET line == strip(minimap[row])
        IN  {TextCell(row, col,
                      IF IsDigit(line[col]) THEN <<"int", int(<<line[col]>>)>>
                      ELSE <<"str", line[col]>>) :
                col \in {c \in 1..Len(line) : line[c] # "0"}}
        : row \in 1..Len(minimap)}

\* openpyxl's get_column_letter(idx) raises ValueError below column 1
ColumnLetterRaises(idx) == idx < 1

(* ----------------------- inputs --------------------------------------- *)
basedir_screenshots == <<"screenshots">>
basedir_elevations == <<"elevations">>
Worlds == {"Camade Oroni"}
\* os.path.join(basedir, world)
join(basedir, world) == basedir \o <<"/", world>>

elevation_start == 70
ElevationSteps == {-1, 0, 1}
EmbarkSizes == {<<1, 1>>}

MkShot(title, block, blockColour, dot, dotColour) ==
    [title |-> title, block |-> block, blockColour |-> blockColour,
     dot |-> dot, dotColour |-> dotColour]

\* the screenshots of the worlds main() is run on: a 7x8 block with one
\* corner pixel off colour, an 7x8 block one pixel further right and down,
\* a 7x7 block (49 pixels), and a minimap without any grey
ShotsOfWorlds ==
    { MkShot(1, <<0, 0, 7, 8>>, Grey, <<6, 0>>, Above),
      MkShot(0, <<1, 1, 7, 8>>, GreyHi, NoDot, Surface),
      MkShot(1, <<0, 0, 7, 7>>, GreyLo, NoDot, Surface),
      MkShot(1, NoBlock, Surface, NoDot, Surface) }

RECURSIVE SeqsOfLen(_, _)
SeqsOfLen(S, n) ==
    IF n = 0 THEN {<<>>}
    ELSE {Append(q, x) : q \in SeqsOfLen(S, n - 1), x \in S}
RECURSIVE SeqsUpTo(_, _)
SeqsUpTo(S, n) == UNION {SeqsOfLen(S, k) : k \in 0..n}

(* ----------------------- state ---------------------------------------- *)
VARIABLES
    tool,             \* "screenshot" or "text": which main() runs
    pc,               \* "start", "pass1", "pass2", "done" or "raised"
    world,            \* argument world
    error,            \* the exception main() ended with, or NoError
    idx,              \* position of the running for loop in its iterable
    minimap_dict,     \* elevation -> minimap (of a file, or list of lines)
    wb,               \* the workbook
    saved,            \* the file wb.save wrote, or NoFile
    pngs,             \* glob of *.png, in the order glob returns
    elevation_step,   \* argument elevation_step
    embark_size,      \* argument embark_size
    elevation,        \* local elevation of the screenshot tool
    leftmost,         \* Overall Extent, four optional integers
    topmost,
    rightmost,
    bottommost,
    pixels,           \* local pixels of pass 2
    files,            \* glob of elevation-*.txt: [stem, lines], glob order
    embark_elevation, \* argument embark_elevation (optional integer)
    map_size,         \* local map_size, two optional integers
    elevations        \* local elevations: the sorted keys

vars == <<tool, pc, world, error, idx, minimap_dict, wb, saved, pngs,
          elevation_step, embark_size, elevation, leftmost, topmost,
          rightmost, bottommost, pixels, files, embark_elevation, map_size,
          elevations>>

shotInputs == <<tool, world, pngs, elevation_step, embark_size>>
textInputs == <<tool, world, files, embark_elevation>>
shotLocals == <<elevation, leftmost, topmost, rightmost, bottommost, pixels>>
textLocals == <<map_size, elevations>>

NoPixels == [h |-> 0, w |-> 0, on |-> {}]

InitCommon ==
    /\ pc = "start"
    /\ world \in Worlds
    /\ error = NoError
    /\ idx = 0
    /\ minimap_dict = <<>>
    /\ wb = <<>>
    /\ saved = NoFile
    /\ elevation = 0
    /\ leftmost = None /\ topmost = None
    /\ rightmost = None /\ bottommost = None
    /\ pixels = NoPixels
    /\ map_size = <<None, None>>
    /\ elevations = <<>>

InitShot(shots) ==
    /\ InitCommon
    /\ tool = "screenshot"
    /\ pngs \in SeqsUpTo(shots, MaxPngs)
    /\ elevation_step \in ElevationSteps
    /\ embark_size \in EmbarkSizes
    /\ files = <<>>
    /\ embark_elevation = None

Raise(type, message) ==
    /\ pc' = "raised"
    /\ error' = [type |-> type, message |-> message]

(* ----------------------- df-screenshot-to-map.py main ----------------- *)
\* lines 285-287: the minimap of a screenshot file. A file's content does
\* not change during the run, so minimap_dict holds a minimap by the file it
\* was read from and Minimap gives its pixels wherever they are used.
Minimap(png) == crop_right_window_border(crop_top_titlebar(imread(png)))

\* ShotStart without the check of line 281
ShotStart_Unchecked ==
    /\ tool = "screenshot" /\ pc = "start"
    /\ elevation' = elevation_start
    /\ leftmost' = None /\ rightmost' = None
    /\ topmost' = None /\ bottommost' = None
    /\ minimap_dict' = <<>>
    /\ pc' = "pass1" /\ idx' = 1
    /\ UNCHANGED <<shotInputs, files, embark_elevation, textLocals, pixels,
                   wb, saved, error>>

\* lines 278-282
ShotStart ==
    /\ tool = "screenshot" /\ pc = "start"
    /\ elevation' = elevation_start
    /\ leftmost' = None /\ rightmost' = None
    /\ topmost' = None /\ bottommost' = None
    /\ minimap_dict' = <<>>
    /\ IF pngs = <<>>
       THEN /\ Raise("OSError", join(basedir_screenshots, world)
                                    \o <<" contains no PNG screenshots">>)
            /\ idx' = idx
       ELSE /\ pc' = "pass1" /\ idx' = 1
            /\ error' = error
    /\ UNCHANGED <<shotInputs, files, embark_elevation, textLocals, pixels,
                   wb, saved>>

\* lines 283-303: one iteration of the first loop
ShotPass1 ==
    /\ tool = "screenshot" /\ pc = "pass1" /\ idx <= Len(pngs)
    /\ LET png == pngs[idx]
           minimap == Minimap(png)
           extents == get_elevation_underground_extents(minimap)
           updated == update_overall_underground_extents(
                          extents,
                          <<leftmost, topmost, rightmost, bottommost>>)
       IN  /\ minimap_dict' = DictSet(minimap_dict, elevation, png)
           /\ IF updated.raised
              THEN /\ Raise("TypeError", <<"'<' not supported between ",
                                "instances of 'NoneType' and 'int'">>)
                   /\ UNCHANGED <<leftmost, topmost, rightmost, bottommost,
                                  elevation, idx>>
              ELSE /\ leftmost' = updated.value[1]
                   /\ topmost' = updated.value[2]
                   /\ rightmost' = updated.value[3]
                   /\ bottommost' = updated.value[4]
                   /\ elevation' = elevation + elevation_step
                   /\ idx' = idx + 1
                   /\ UNCHANGED <<pc, error>>
    /\ UNCHANGED <<shotInputs, files, embark_elevation, textLocals, pixels,
                   wb, saved>>

\* ShotWorkbook run from inside the first loop, after any iteration
ShotWorkbook_Early ==
    /\ tool = "screenshot" /\ pc = "pass1" /\ idx > 1
    /\ wb' = Workbook
    /\ pc' = "pass2" /\ idx' = 1
    /\ UNCHANGED <<shotInputs, files, embark_elevation, textLocals,
                   shotLocals, minimap_dict, error, saved>>

\* lines 308-315: the first loop is over, the workbook is created
ShotWorkbook ==
    /\ tool = "screenshot" /\ pc = "pass1" /\ idx > Len(pngs)
    /\ wb' = Workbook
    /\ pc' = "pass2" /\ idx' = 1
    /\ UNCHANGED <<shotInputs, files, embark_elevation, textLocals,
                   shotLocals, minimap_dict, error, saved>>

\* lines 316-356: one iteration of the second loop
ShotPass2 ==
    /\ tool = "screenshot" /\ pc = "pass2" /\ idx <= Len(minimap_dict)
    /\ LET minimap == Minimap(minimap_dict[idx][2])
           sheet_last_row == 1 + TilesPerEmbark * embark_size[1] - 1
           sheet_last_column == 1 + TilesPerEmbark * embark_size[2] - 1
       IN  /\ elevation' = minimap_dict[idx][1]
           /\ pixels' = get_underground_pixels(
                            minimap,
                            <<leftmost, rightmost, topmost, bottommost>>)
           /\ wb' = Append(wb,
                      [title |-> ElevTitle(elevation'),
                       cells |-> Resample(pixels', embark_size),
                       range |-> <<1, 1, sheet_last_column, sheet_last_row>>,
                       zoomScale |-> zoom])
    /\ idx' = idx + 1
    /\ UNCHANGED <<shotInputs, files, embark_elevation, textLocals,
                   leftmost, topmost, rightmost, bottommost, minimap_dict,
                   pc, error, saved>>

\* lines 358-363
ShotSave ==
    /\ tool = "screenshot" /\ pc = "pass2" /\ idx > Len(minimap_dict)
    /\ saved' = [name |-> <<world, ".xlsx">>, sheets |-> wb,
                 active |-> SheetTitle]
    /\ pc' = "done"
    /\ UNCHANGED <<shotInputs, files, embark_elevation, textLocals,
                   shotLocals, minimap_dict, wb, idx, error>>

NextShot == ShotStart \/ ShotPass1 \/ ShotWorkbook \/ ShotPass2 \/ ShotSave

(* ----------------------- df-map-export.py main ------------------------ *)
MkFile(stem, lines) == [stem |-> stem, lines |-> lines]

DistinctStems(fs) ==
    \A i, j \in 1..Len(fs) : i # j => fs[i].stem # fs[j].stem

InitText(worlds, embarks) ==
    /\ InitCommon
    /\ tool = "text"
    /\ files \in worlds
    /\ embark_elevation \in embarks
    /\ pngs = <<>>
    /\ elevation_step = 0
    /\ embark_size = <<0, 0>>

\* lines 47-50
TextStart ==
    /\ tool = "text" /\ pc = "start"
    /\ minimap_dict' = <<>>
    /\ map_size' = <<None, None>>
    /\ IF files = <<>>
       THEN /\ Raise("OSError", join(basedir_elevations, world)
                                    \o <<" contains no elevation-*.txt files">>)
            /\ idx' = idx
       ELSE /\ pc' = "pass1" /\ idx' = 1
            /\ error' = error
    /\ UNCHANGED <<textInputs, pngs, elevation_step, embark_size, shotLocals,
                   elevations, wb, saved>>

\* lines 51-58: one iteration of the loop over the files
TextRead ==
    /\ tool = "text" /\ pc = "pass1" /\ idx <= Len(files)
    /\ LET elevation_list == re_findall(files[idx].stem)
           lines == files[idx].lines
       IN  IF elevation_list = <<>>
           THEN /\ Raise("IndexError", <<"list index out of range">>)
                /\ UNCHANGED <<idx, map_size, minimap_dict>>
           ELSE IF IntRaises(elevation_list[1])
           THEN /\ Raise("ValueError", <<"invalid literal for int()">>)
                /\ UNCHANGED <<idx, map_size, minimap_dict>>
           ELSE IF map_size = <<None, None>> /\ lines = <<>>
           THEN /\ Raise("IndexError", <<"list index out of range">>)
                /\ UNCHANGED <<idx, map_size, minimap_dict>>
           ELSE /\ map_size' = IF map_size = <<None, None>>
                               THEN <<Some(Len(lines)),
                                      Some(Len(strip(lines[1])))>>
                               ELSE map_size
                /\ minimap_dict' = DictSet(minimap_dict,
                                           int(elevation_list[1]), lines)
                /\ idx' = idx + 1
                /\ UNCHANGED <<pc, error>>
    /\ UNCHANGED <<textInputs, pngs, elevation_step, embark_size, shotLocals,
                   elevations, wb, saved>>

\* lines 60-97: the loop is over; the workbook, the sheet range, the order
TextWorkbook ==
    /\ tool = "text" /\ pc = "pass1" /\ idx > Len(files)
    /\ wb' = Workbook
    /\ IF ColumnLetterRaises(1 + Val(map_size[2]) - 1)
       THEN /\ Raise("ValueError", <<"Invalid column index 0">>)
            /\ UNCHANGED <<idx, elevations>>
       ELSE /\ elevations' = SortedReverse(DictKeys(minimap_dict))
            /\ pc' = "pass2" /\ idx' = 1
            /\ error' = error
    /\ UNCHANGED <<textInputs, pngs, elevation_step, embark_size, shotLocals,
                   map_size, minimap_dict, saved>>

\* lines 99-120: one iteration of the loop over the sorted elevations
TextSheet ==
    /\ tool = "text" /\ pc = "pass2" /\ idx <= Len(elevations)
    /\ LET minimap == DictGet(minimap_dict, elevations[idx])
           sheet_last_row == 1 + Val(map_size[1]) - 1
           sheet_last_column == 1 + Val(map_size[2]) - 1
       IN  wb' = Append(wb,
                   [title |-> ElevTitle(elevations[idx]),
                    cells |-> TextCells(minimap),
                    range |-> <<1, 1, sheet_last_column, sheet_last_row>>,
                    zoomScale |-> zoom])
    /\ idx' = idx + 1
    /\ UNCHANGED <<textInputs, pngs, elevation_step, embark_size, shotLocals,
                   textLocals, minimap_dict, pc, error, saved>>

\* del wb['Sheet']
DelSheet(book, title) == SelectSeq(book, LAMBDA sh : sh.title # title)

\* lines 122-129
TextSave ==
    /\ tool = "text" /\ pc = "pass2" /\ idx > Len(elevations)
    /\ IF /\ embark_elevation # None
          /\ ~\E k \in 1..Len(wb) :
                  wb[k].title = ElevTitle(Val(embark_elevation))
       THEN /\ Raise("KeyError", <<"Worksheet does not exist.">>)
            /\ UNCHANGED <<wb, saved>>
       ELSE /\ wb' = DelSheet(wb, SheetTitle)
            /\ saved' = [name |-> <<world, ".xlsx">>, sheets |-> wb',
                         active |-> IF embark_elevation = None
                                    THEN SheetTitle
                                    ELSE ElevTitle(Val(embark_elevation))]
            /\ pc' = "done"
            /\ error' = error
    /\ UNCHANGED <<textInputs, pngs, elevation_step, embark_size, shotLocals,
                   textLocals, minimap_dict, idx>>

NextText == TextStart \/ TextRead \/ TextWorkbook \/ TextSheet \/ TextSave

(* ----------------------- the two tools --------------------------------- *)
\* file names elevation-<stem>.txt of the worlds main() is run on
Stems == { <<"5">>, <<"0", "5">>, <<"-", "5">>, <<"4">>, <<"5", "-">>,
           <<"a">> }
\* and their contents
GridsOfWorlds ==
    { << <<"r", "0", "\n">> >>,
      << <<"0", "1", "\n">>, <<"?", "s", "\n">> >> }

TextWorlds(stems, grids, n) ==
    {fs \in SeqsUpTo({MkFile(st, g) : st \in stems, g \in grids}, n) :
        DistinctStems(fs)}

Init ==
    \/ InitShot(ShotsOfWorlds)
    \/ InitText(TextWorlds(Stems, GridsOfWorlds, MaxFiles), {None, Some(5)})

Next == NextShot \/ NextText

Spec == Init /\ [][Next]_vars

(* ----------------------- text grids, every small content ------------- *)
GridChars == {" ", "0", "1", "r"}
Rows == {Append(r, "\n") : r \in SeqsUpTo(GridChars, MaxCols)}

\* up to maxfiles files named elevation-5.txt, elevation-4.txt in either
\* glob order; k files hold at most MaxLines \div k lines each
RichWorlds(maxfiles) ==
    UNION { {fs \in SeqsOfLen({MkFile(st, g) :
                                  st \in {<<"5">>, <<"4">>},
                                  g \in SeqsUpTo(Rows, MaxLines \div k)}, k) :
                DistinctStems(fs)}
            : k \in 0..maxfiles }

InitGrids == InitText(RichWorlds(MaxFiles), {None})

SpecText == InitGrids /\ [][NextText]_vars

(* ======================= properties =================================== *)
Overall == <<leftmost, topmost, rightmost, bottommost>>
NullExtent == <<None, None, None, None>>

\* the Extent of one screenshot: the rectangle around the pixels its Mask
\* keeps, exclusive on the right and at the bottom
ExtentOf(png) ==
    LET on == get_underground_pixels(Minimap(png), NoExtents).on
    IN  IF on = {} THEN NullExtent
        ELSE <<Some(Min({q[2] : q \in on})), Some(Min({q[1] : q \in on})),
               Some(Max({q[2] : q \in on}) + 1),
               Some(Max({q[1] : q \in on}) + 1)>>

\* the union rectangle of the non-null Extents of a list of screenshots
UnionRect(shots) ==
    LET exts == {ExtentOf(shots[k]) : k \in 1..Len(shots)} \ {NullExtent}
    IN  IF exts = {} THEN NullExtent
        ELSE <<Some(Min({Val(e[1]) : e \in exts})),
               Some(Min({Val(e[2]) : e \in exts})),
               Some(Max({Val(e[3]) : e \in exts})),
               Some(Max({Val(e[4]) : e \in exts}))>>

ShotRun == tool = "screenshot" /\ pngs # <<>>
TypeErrorRaised == pc = "raised" /\ error.type = "TypeError"

\* C1: in whatever order glob lists the screenshots of a world, the fold of
\* their Extents from (None, None, None, None) ends, and ends with the union
\* rectangle of the whole set.
C1_FoldGivesUnionInEveryOrder ==
    (ShotRun /\ pc \in {"pass2", "done", "raised"})
        => (pc # "raised" /\ Overall = UnionRect(pngs))

\* The part of C1 the code keeps: a fold that ends without an exception ends
\* with the union rectangle, in every order.
FoldThatEndsGivesUnion ==
    (ShotRun /\ pc \in {"pass2", "done"}) => Overall = UnionRect(pngs)

\* C5: a screenshot without underground pixels has the all-null Extent, and a
\* world that holds one is still processed to the end, whatever its place in
\* the order; the Overall Extent is then the union of the other Extents.
C5_NullExtentIsNotFatal ==
    (ShotRun /\ \E k \in 1..Len(pngs) :
                    get_elevation_underground_extents(Minimap(pngs[k]))
                        = NullExtent)
        => /\ ~TypeErrorRaised
           /\ pc = "done" => Overall = UnionRect(pngs)

\* C3: pass 2 starts only when every screenshot of the world has been
\* through pass 1, so with the Overall Extent of the whole world; from then on
\* the Overall Extent stays as it is, pass 1 never runs again, and every
\* Mask of pass 2 has the shape of that one rectangle.
C3_Pass1CompleteBeforePass2 ==
    [][ tool = "screenshot" =>
          /\ (pc = "pass1" /\ pc' = "pass2") => idx = Len(pngs) + 1
          /\ pc' \in {"pass2", "done"} => Overall' = UnionRect(pngs)
          /\ pc \in {"pass2", "done"} =>
                /\ pc' \in {"pass2", "done"}
                /\ Overall' = Overall
                /\ minimap_dict' = minimap_dict
          /\ (pc = "pass2" /\ wb' # wb /\ pc' = "pass2") =>
                LET final == UnionRect(pngs)
                IN  /\ pixels'.w = IF final = NullExtent THEN ImgW
                                   ELSE Val(final[3]) - Val(final[1])
                    /\ pixels'.h = IF final = NullExtent THEN ImgH
                                   ELSE Val(final[4]) - Val(final[2])
      ]_vars

\* two sheets resampled in a world whose first two Extents differ from each
\* other and from the Overall Extent
C3_Witness ==
    /\ tool = "screenshot" /\ pc = "pass2" /\ idx = 3
    /\ ExtentOf(pngs[1]) # NullExtent /\ ExtentOf(pngs[2]) # NullExtent
    /\ Overall # ExtentOf(pngs[1]) /\ Overall # ExtentOf(pngs[2])

Inputs == IF tool = "screenshot" THEN pngs ELSE files
ElevSheets(book) == SelectSeq(book, LAMBDA sh : sh.title[1] = "Elev")

\* C4: a world directory without elevation inputs ends main() in an OSError
\* whose message starts with the path of the directory, and nothing has been
\* read, no sheet created and no file saved.
C4_NoInputsIsInputError ==
    (tool \in {"screenshot", "text"} /\ Inputs = <<>> /\ pc # "start")
        => /\ pc = "raised" /\ error.type = "OSError"
           /\ Len(error.message) > 3
           /\ SubSeq(error.message, 1, 3)
                = join(IF tool = "screenshot" THEN basedir_screenshots
                       ELSE basedir_elevations, world)
           /\ minimap_dict = <<>> /\ wb = <<>> /\ saved = NoFile

C4_Witness ==
    /\ tool = "screenshot" /\ pngs = <<>>
    /\ pc = "raised" /\ error.type = "OSError"

\* C6: every input file of a world gets a sheet of its own: once the inputs
\* are read, minimap_dict holds one grid per input, and the saved workbook
\* holds one elevation sheet per input.
C6_OneSheetPerInput ==
    tool \in {"screenshot", "text"} =>
        /\ pc = "pass2" => Len(minimap_dict) = Len(Inputs)
        /\ pc = "done" => Len(ElevSheets(saved.sheets)) = Len(Inputs)

\* C7: the elevation sheets are created in elevation order: each next sheet
\* of the text tool has a lower elevation, each next sheet of the screenshot
\* tool an elevation further in the direction of elevation_step.
C7_SheetsInElevationOrder ==
    LET sheets == ElevSheets(wb)
    IN  \A k \in 1..(Len(sheets) - 1) :
            LET here == sheets[k].title[2]
                next == sheets[k + 1].title[2]
            IN  /\ tool = "text" => next < here
                /\ tool = "screenshot" => (next - here) * elevation_step > 0

\* the text tool has saved two sheets for files glob listed lowest first
C7_Witness ==
    /\ tool = "text" /\ pc = "done" /\ Len(files) = 2
    /\ Len(ElevSheets(saved.sheets)) = 2
    /\ ~IntRaises(files[1].stem) /\ ~IntRaises(files[2].stem)
    /\ int(files[1].stem) < int(files[2].stem)

\* C9: the sample taken at x along the image columns and y along the image
\* rows lands in the cell whose column counts x and whose row counts y: the
\* four corners of the resampled Mask are written exactly when the matching
\* corner pixel of the Mask is marked, and every written cell holds 1.
C9_ResamplerKeepsAxes ==
    (tool = "screenshot" /\ pc \in {"pass2", "done"} /\ Len(wb) > 1) =>
        LET cells == wb[Len(wb)].cells
            nx == TilesPerEmbark * embark_size[1]
            ny == TilesPerEmbark * embark_size[2]
        IN  /\ \A cx, cy \in {0, 1} :
                   (<<1 + cx * (nx - 1), 1 + cy * (ny - 1), <<"float", 1>> >>
                        \in cells)
                   <=> (<<cy * (pixels.h - 1), cx * (pixels.w - 1)>>
                            \in pixels.on)
            /\ \A cell \in cells :
                   /\ cell[3] = <<"float", 1>>
                   /\ cell[1] \in 1..nx /\ cell[2] \in 1..ny
            /\ pixels.on = {} => cells = {}

\* a sheet whose Mask is marked at the top right corner (x = 1, y = 0) and
\* not at the bottom left one
C9_Witness ==
    /\ tool = "screenshot" /\ pc = "pass2" /\ Len(wb) > 1
    /\ <<0, pixels.w - 1>> \in pixels.on
    /\ <<pixels.h - 1, 0>> \notin pixels.on
    /\ <<TilesPerEmbark * embark_size[1], 1, <<"float", 1>> >>
            \in wb[Len(wb)].cells

(* ----------------------- the Tile Classifier on its own --------------- *)
\* every screenshot with at most one block that leaves at most one row and
\* two columns of the minimap free, and at most one pixel of another colour
Blocks ==
    {b \in (0..1) \X (0..2) \X ((ImgH - 1)..ImgH) \X ((ImgW - 2)..ImgW) :
        b[1] + b[3] <= ImgH /\ b[2] + b[4] <= ImgW}
Dots == (0..(ImgH - 1)) \X (0..(ImgW - 1))
AllShots(blocks, dots) ==
    {MkShot(1, b, bc, d, dc) :
        b \in blocks, bc \in {GreyLo, Below},
        d \in dots, dc \in {GreyHi, Above}}
    \cup {MkShot(1, b, bc, NoDot, Surface) :
            b \in blocks, bc \in {GreyLo, Below}}
    \cup {MkShot(1, NoBlock, Surface, d, GreyHi) : d \in dots}
    \cup {MkShot(1, NoBlock, Surface, NoDot, Surface)}

\* the crop <<left, right, top, bottom>> the classifier is called with
CropsOfClassifier ==
    { <<Some(1), Some(ImgW), Some(0), Some(ImgH - 1)>> }

InitClassifier ==
    /\ InitCommon
    /\ tool = "classifier"
    /\ pngs \in {<<p>> : p \in AllShots(Blocks, Dots)}
    /\ elevation_step = 0
    /\ embark_size = <<0, 0>>
    /\ files = <<>>
    /\ embark_elevation = None

\* get_underground_pixels(minimap)
ClassifyWhole ==
    /\ tool = "classifier" /\ pc = "start"
    /\ pixels' = get_underground_pixels(Minimap(pngs[1]), NoExtents)
    /\ pc' = "whole"
    /\ UNCHANGED <<shotInputs, textInputs, textLocals, elevation, leftmost,
                   topmost, rightmost, bottommost, error, idx, minimap_dict,
                   wb, saved>>

\* get_underground_pixels(minimap, (left, right, top, bottom))
ClassifyCropped ==
    /\ tool = "classifier" /\ pc = "start"
    /\ \E crop \in CropsOfClassifier :
          /\ leftmost' = crop[1] /\ rightmost' = crop[2]
          /\ topmost' = crop[3] /\ bottommost' = crop[4]
          /\ pixels' = get_underground_pixels(Minimap(pngs[1]), crop)
    /\ pc' = "cropped"
    /\ UNCHANGED <<shotInputs, textInputs, textLocals, elevation, error, idx,
                   minimap_dict, wb, saved>>

NextClassifier == ClassifyWhole \/ ClassifyCropped

SpecMask == InitClassifier /\ [][NextClassifier]_vars

\* the claim's own reading of "in range" and "connected component"
TargetLow == 125
TargetHigh == 130
MinArea == 50
InTarget(px) == \A k \in 1..3 : px[k] >= TargetLow /\ px[k] <= TargetHigh
Touching(p, q) ==
    LET dr == IF p[1] > q[1] THEN p[1] - q[1] ELSE q[1] - p[1]
        dc == IF p[2] > q[2] THEN p[2] - q[2] ELSE q[2] - p[2]
    IN  (IF dr > dc THEN dr ELSE dc) = 1
\* the region of S around T: T with, step after step, the pixels of S that
\* touch the pixels added last (edge)
RECURSIVE RegionOf(_, _, _)
RegionOf(T, edge, S) ==
    IF edge = {} THEN T
    ELSE LET fresh == {q \in S \ T : \E p \in edge : Touching(p, q)}
         IN  RegionOf(T \cup fresh, fresh, S)
RECURSIVE Regions(_)
Regions(S) ==
    IF S = {} THEN {}
    ELSE LET seed == CHOOSE p \in S : TRUE
             region == RegionOf({seed}, {seed}, S)
         IN  {region} \cup Regions(S \ region)

\* the image region a finished call classified
Classified ==
    IF pc = "whole" THEN Minimap(pngs[1])
    ELSE Slice(Minimap(pngs[1]), topmost, bottommost, leftmost, rightmost)

\* whether mask is the Mask the claim describes for image
IsMaskOf(mask, image) ==
    LET target == {q \in (0..(Height(image) - 1)) \X (0..(Width(image) - 1)) :
                      InTarget(image[q[1] + 1][q[2] + 1])}
    IN  /\ mask.h = Height(image) /\ mask.w = Width(image)
        /\ mask.on = UNION {region \in Regions(target) :
                                Cardinality(region) >= MinArea}
        /\ \A region \in Regions(mask.on) : Cardinality(region) >= MinArea
        /\ target = {} => mask.on = {}

RowOf(line) ==
    IF line # <<>> /\ line[Len(line)] = "\n"
    THEN SubSeq(line, 1, Len(line) - 1) ELSE line

\* the character a cell value stands for
CellChar(value) == IF value[1] = "int" THEN Digits[value[2] + 1] ELSE value[2]

OpenTerrain == {" ", "0"}

\* C8: the sheet of an elevation holds a cell at (row r, column c) exactly
\* when the character at column c of line r of its file is not a space and
\* not '0', the cell's value is that character, and nothing else is written.
C8_CellsAreTheTerrainCharacters ==
    tool = "text" =>
        \A k \in 1..Len(wb) :
            wb[k].title[1] = "Elev" =>
                LET lines == DictGet(minimap_dict, wb[k].title[2])
                IN  {<<cell[1], cell[2], CellChar(cell[3])>> :
                        cell \in wb[k].cells}
                    = UNION {
                        {<<c, r, RowOf(lines[r])[c]>> :
                            c \in {i \in 1..Len(RowOf(lines[r])) :
                                     RowOf(lines[r])[i] \notin OpenTerrain}}
                        : r \in 1..Len(lines)}

\* the lengths of the rows of all files of the world, blank lines aside
RowLengths ==
    UNION {{Len(RowOf(files[f].lines[r])) : r \in 1..Len(files[f].lines)}
           : f \in 1..Len(files)} \ {0}

\* C10: a world of the text tool whose rows do not all have one length
\* produces no workbook. (Stated for rows that are not blank; a world
\* refuting this refutes the claim for all rows.)
C10_RowLengthMismatchIsFatal ==
    (tool = "text" /\ Cardinality(RowLengths) > 1)
        => (pc # "done" /\ saved = NoFile)

(* ----------------------- pass 2 on the cropped minimap ---------------- *)
\* the screenshots of the worlds the crop is checked on: a block of 56, 54
\* or 49 pixels of GreyLo, alone or with one more in-range pixel (GreyHi)
\* that stands apart from the block or touches it at a corner
CropShots ==
    { MkShot(1, <<0, 0, 8, 7>>, GreyLo, NoDot, Surface),
      MkShot(1, <<0, 0, 8, 7>>, GreyLo, <<0, 8>>, GreyHi),
      MkShot(1, <<0, 2, 8, 7>>, GreyLo, NoDot, Surface),
      MkShot(1, <<0, 2, 8, 7>>, GreyLo, <<0, 0>>, GreyHi),
      MkShot(1, <<1, 0, 7, 8>>, GreyLo, NoDot, Surface),
      MkShot(1, <<1, 0, 7, 8>>, GreyLo, <<0, 8>>, GreyHi),
      MkShot(1, <<0, 0, 7, 7>>, GreyLo, NoDot, Surface),
      MkShot(1, <<0, 0, 7, 7>>, GreyLo, <<7, 7>>, GreyHi),
      MkShot(1, <<2, 0, 6, 9>>, GreyLo, NoDot, Surface),
      MkShot(1, <<2, 0, 6, 9>>, GreyLo, <<0, 0>>, GreyHi) }

InitCrop ==
    /\ InitCommon
    /\ tool = "screenshot"
    /\ pngs \in SeqsOfLen(CropShots, CropPngs)
    /\ elevation_step = -1
    /\ embark_size \in EmbarkSizes
    /\ files = <<>>
    /\ embark_elevation = None

SpecCrop == InitCrop /\ [][NextShot]_vars

\* the screenshot the last iteration of the second loop worked on
LastResampled == minimap_dict[idx - 1][2]

\* whether pixel q lies in the rectangle <<left, top, right, bottom>>
InRect(q, rect) ==
    /\ Val(rect[1]) <= q[2] /\ q[2] < Val(rect[3])
    /\ Val(rect[2]) <= q[1] /\ q[1] < Val(rect[4])

\* a Mask restricted to a rectangle, in the rectangle's own coordinates
Restricted(mask, rect) ==
    [h  |-> Val(rect[4]) - Val(rect[2]),
     w  |-> Val(rect[3]) - Val(rect[1]),
     on |-> {<<q[1] - Val(rect[2]), q[2] - Val(rect[1])>> :
                q \in {p \in mask.on : InRect(p, rect)}}]

\* C11: for a screenshot whose Extent is not null, the Mask pass 2 computes
\* on the minimap cropped to the Overall Extent is the Mask pass 1 computed
\* on the whole minimap, restricted to that rectangle: the crop drops no
\* pixel of a kept component and keeps no pixel of a filtered one.
C11_CropKeepsTheMask ==
    (tool = "screenshot" /\ pc \in {"pass2", "done"} /\ idx > 1
        /\ ExtentOf(LastResampled) # NullExtent)
    => pixels = Restricted(
                    get_underground_pixels(Minimap(LastResampled), NoExtents),
                    Overall)

\* pass 2 has worked on a screenshot whose own Extent is smaller than the
\* Overall Extent and that has, inside the Overall Extent, an in-range
\* pixel its whole-image Mask filtered out
C11_Witness ==
    /\ tool = "screenshot" /\ pc = "pass2" /\ idx > 1
    /\ ExtentOf(LastResampled) # NullExtent
    /\ ExtentOf(LastResampled) # Overall
    /\ pixels.on # {}
    /\ \E q \in inRangeMask(Minimap(LastResampled), lower, upper) :
          /\ InRect(q, Overall)
          /\ q \notin get_underground_pixels(Minimap(LastResampled),
                                              NoExtents).on

====
